---- MODULE Spec2Model ----
(***************************************************************************)
(* The update-notification lifecycle of the site's service worker:         *)
(* the usePWAUpdate hook (the variant with dismissedRef and the 48 h       *)
(* timer) and the PWAUpdatePrompt component that renders its result.       *)
(*                                                                         *)
(* Time is in milliseconds, as in the setTimeout calls of the hook.        *)
(* The registration mechanism (useRegisterSW) is the environment: it       *)
(* invokes the four callbacks and changes the two values it returns.       *)
(***************************************************************************)
EXTENDS Integers, Sequences, FiniteSets

VARIABLES
    updateAvailable,   \* useState(false): the hook's updateAvailable
    offlineReady,      \* useState(false): the hook's offlineReady
    dismissedRef,      \* useRef(false): dismissedRef.current
    swNeedRefresh,     \* needRefresh as returned by useRegisterSW
    swOfflineReady,    \* offlineReady as returned by useRegisterSW
    now,               \* the clock: ms since the page was loaded
    dismissTimers,     \* pending setTimeout(... , 48 h) of dismissUpdate: expiry times, in scheduling order
    reloadTimers,      \* pending setTimeout(reload, 100) of updateApp: expiry times, in scheduling order
    activations,       \* the updateServiceWorker calls of this page load: the flag each one passed
    activationOutcome, \* how the most recent updateServiceWorker call ended ("none": no call yet)
    effects,           \* the effects of updateApp, in the order the code performs them
    log,               \* what the hook wrote to the console
    suppressedUntil,   \* expiry of the timer armed by the most recent dismissUpdate (0: none armed)
    accepted,          \* updateApp was invoked in this page load
    notified,          \* a need-refresh notification was delivered in this page load
    cleared,           \* the mechanism's needRefresh value went back to false in this page load
    dismissedKnown,    \* the most recent dismissUpdate came after a need-refresh notification
    overlapped,        \* the most recent dismissUpdate came while an earlier one's timer had not yet expired
    lastOp,            \* the operation that produced this state
    variant,           \* which analytics module is built in: "tag" (lib/analytics.ts) or "selfLoading"
    prod,              \* import.meta.env.PROD (import.meta.env.DEV is its negation)
    gtag,              \* window.gtag: "absent", "stub" (defined by initAnalytics) or "official"
    fbqDefined,        \* window.fbq is defined
    dataLayerDefined,  \* window.dataLayer is defined
    dataLayer,         \* the entries pushed to window.dataLayer, oldest first
    initialized,       \* initAnalytics has run
    scriptState,       \* the script element initAnalytics appends: "none", "loading", "loaded", "onloadRun", "failed"
    sent,              \* the calls the latest tracking call made to gtag and fbq, in order
    lastCall,          \* the latest tracking call: its name, which tags threw during it, how it ended
    calls,             \* the events the tracking calls so far were asked to record, in call order
    recorded,          \* the events recorded so far by gtag or by a push to dataLayer, in order
    gaScriptInDom,     \* document.querySelector('script[src*="googletagmanager.com/gtag/js"]') !== null
    attempt,           \* the attempt argument of the pending or latest waitForAnalytics call
    waitPending,       \* a waitForAnalytics call is due: the first one, or the one a setTimeout scheduled
    checks,            \* how many times waitForAnalytics has looked for the script
    pageViews          \* how many times waitForAnalytics has called trackPageView

\* the update-notification hook
pwaVars == <<updateAvailable, offlineReady, dismissedRef, swNeedRefresh, swOfflineReady,
             now, dismissTimers, reloadTimers, activations, activationOutcome, effects, log,
             suppressedUntil, accepted, notified, cleared, dismissedKnown, overlapped, lastOp>>

\* the analytics module
analyticsVars == <<variant, prod, gtag, fbqDefined, dataLayerDefined, dataLayer, initialized,
                   scriptState, sent, lastCall, calls, recorded>>

\* the wait loop of main.tsx
waitVars == <<gaScriptInDom, attempt, waitPending, checks, pageViews>>

vars == <<pwaVars, analyticsVars, waitVars>>

(***************************************************************************)
(* Program constants                                                       *)
(***************************************************************************)
SuppressionWindow == 48 * 60 * 60 * 1000

ReloadDelay == 100

(***************************************************************************)
(* Bounds of the model                                                     *)
(***************************************************************************)
MaxHalfWindows == 1

MaxTimers == 2

MaxAccepts == 2

HalfWindow == SuppressionWindow \div 2

MaxTime == MaxHalfWindows * HalfWindow

\* the instants at which the user calls updateApp or dismissUpdate
CallTimes == {k * HalfWindow : k \in 0..MaxHalfWindows}

DeliveryModes == {"callback", "value", "both"}

(***************************************************************************)
(* The component: it renders the dialog iff the hook's updateAvailable.    *)
(***************************************************************************)
shouldShowPrompt == updateAvailable

(***************************************************************************)
(* The hook's callbacks and effects, as functions of the values they read. *)
(***************************************************************************)
\* onNeedRefresh never setting updateAvailable
onNeedRefresh_ignores(ua, d) == ua

\* onNeedRefresh without the dismissedRef test
onNeedRefresh_unguarded(ua, d) == TRUE

\* onNeedRefresh: the new value of updateAvailable
onNeedRefresh(ua, d) == IF ~d THEN TRUE ELSE ua

\* onOfflineReady flipping the flag
onOfflineReady_toggles(o) == ~o

\* onOfflineReady leaving offlineReady as it is
onOfflineReady_ignores(o) == o

\* onOfflineReady: the new value of offlineReady
onOfflineReady(o) == TRUE

\* the offlineReady effect flipping the flag each time it runs
offlineReadyEffect_toggles(sw, o) == IF sw THEN ~o ELSE o

\* useEffect(..., [swOfflineReady]): the new value of offlineReady
offlineReadyEffect(sw, o) == IF sw THEN TRUE ELSE o

\* the needRefresh effect without its else branch
needRefreshEffect_noElse(sw, ua, d) ==
    IF sw /\ ~d THEN [ua |-> TRUE, d |-> d] ELSE [ua |-> ua, d |-> d]

\* the needRefresh effect clearing the dismissed flag whenever it runs
needRefreshEffect_alwaysResets(sw, ua, d) ==
    IF sw THEN [ua |-> TRUE, d |-> FALSE] ELSE [ua |-> FALSE, d |-> FALSE]

\* the needRefresh effect without its test of dismissedRef.current
needRefreshEffect_unguarded(sw, ua, d) ==
    IF sw THEN [ua |-> TRUE, d |-> d] ELSE [ua |-> FALSE, d |-> FALSE]

\* useEffect(..., [swNeedRefresh]): the new updateAvailable and dismissedRef.current
needRefreshEffect(sw, ua, d) ==
    IF sw /\ ~d THEN [ua |-> TRUE, d |-> d]
    ELSE IF ~sw THEN [ua |-> FALSE, d |-> FALSE]
    ELSE [ua |-> ua, d |-> d]

\* updateApp scheduling the reload before it issues the activation command
updateAppEffects_reloadFirst ==
    << "setTimeout(reload)", "updateServiceWorker(true)", "setUpdateAvailable(false)" >>

\* the effects of updateApp, in program order
updateAppEffects ==
    << "updateServiceWorker(true)", "setUpdateAvailable(false)", "setTimeout(reload)" >>

\* the argument updateApp passes to updateServiceWorker
updateAppReloadFlag == TRUE

\* the delay of the timer armed by dismissUpdate
dismissDelay == SuppressionWindow

\* a fresh page load, after the mount effects have run
Mounted ==
    /\ updateAvailable = FALSE
    /\ offlineReady = FALSE
    /\ dismissedRef = FALSE
    /\ swNeedRefresh = FALSE
    /\ swOfflineReady = FALSE
    /\ dismissTimers = << >>
    /\ reloadTimers = << >>
    /\ activations = << >>
    /\ activationOutcome = "none"
    /\ effects = << >>
    /\ log = {}
    /\ suppressedUntil = 0
    /\ accepted = FALSE
    /\ notified = FALSE
    /\ cleared = FALSE
    /\ dismissedKnown = FALSE
    /\ overlapped = FALSE

\* no tracking call made yet
NoCall == [name |-> "none", throws |-> {}, result |-> "none"]

\* the analytics module and the wait loop before main.tsx has run them
AnalyticsIdle ==
    /\ dataLayer = << >>
    /\ initialized = FALSE
    /\ scriptState = "none"
    /\ sent = << >>
    /\ lastCall = NoCall
    /\ calls = << >>
    /\ recorded = << >>
    /\ attempt = 0
    /\ waitPending = FALSE
    /\ checks = 0
    /\ pageViews = 0

\* the production build with both tags of index.html in place
TagsInPlace ==
    /\ variant = "tag"
    /\ prod = TRUE
    /\ gtag = "official"
    /\ fbqDefined = TRUE
    /\ dataLayerDefined = TRUE
    /\ gaScriptInDom = TRUE

Init ==
    /\ Mounted
    /\ now = 0
    /\ lastOp = "mount"
    /\ AnalyticsIdle
    /\ TagsInPlace

(***************************************************************************)
(* Notifications of the registration mechanism.  A notification reaches    *)
(* the hook through the callback passed to useRegisterSW, through the      *)
(* value useRegisterSW returns (the effect depending on it runs when the   *)
(* value has changed), or both.  The registration itself is attempted     *)
(* once per page load and ends in onRegistered or in onRegisterError.      *)
(***************************************************************************)
SWRegistered ==
    /\ log = {}
    /\ log' = log \cup {"Service Worker registrado"}
    /\ lastOp' = "registered"
    /\ UNCHANGED <<analyticsVars, waitVars>>
    /\ UNCHANGED <<updateAvailable, offlineReady, dismissedRef, swNeedRefresh,
                   swOfflineReady, now, dismissTimers, reloadTimers, activations,
                   activationOutcome, effects, suppressedUntil, accepted, notified,
                   cleared, dismissedKnown, overlapped>>

\* onRegisterError resetting the flags of the hook
SWRegisterError_resetsFlags ==
    /\ log = {}
    /\ log' = log \cup {"Error al registrar Service Worker"}
    /\ updateAvailable' = FALSE
    /\ offlineReady' = FALSE
    /\ lastOp' = "registerError"
    /\ UNCHANGED <<analyticsVars, waitVars>>
    /\ UNCHANGED <<dismissedRef, swNeedRefresh, swOfflineReady, now, dismissTimers,
                   reloadTimers, activations, activationOutcome, effects,
                   suppressedUntil, accepted, notified, cleared, dismissedKnown,
                   overlapped>>

SWRegisterError ==
    /\ log = {}
    /\ log' = log \cup {"Error al registrar Service Worker"}
    /\ lastOp' = "registerError"
    /\ UNCHANGED <<analyticsVars, waitVars>>
    /\ UNCHANGED <<updateAvailable, offlineReady, dismissedRef, swNeedRefresh,
                   swOfflineReady, now, dismissTimers, reloadTimers, activations,
                   activationOutcome, effects, suppressedUntil, accepted, notified,
                   cleared, dismissedKnown, overlapped>>

SWOfflineReady(mode) ==
    LET o1  == IF mode \in {"callback", "both"} THEN onOfflineReady(offlineReady)
               ELSE offlineReady
        sw1 == IF mode \in {"value", "both"} THEN TRUE ELSE swOfflineReady
        o2  == IF sw1 # swOfflineReady THEN offlineReadyEffect(sw1, o1) ELSE o1
    IN  /\ offlineReady' = o2
        /\ swOfflineReady' = sw1
        /\ lastOp' = IF offlineReady THEN "offlineReadyAgain" ELSE "offlineReady"
        /\ UNCHANGED <<analyticsVars, waitVars>>
        /\ UNCHANGED <<updateAvailable, dismissedRef, swNeedRefresh, now,
                       dismissTimers, reloadTimers, activations, activationOutcome,
                       effects, log, suppressedUntil, accepted, notified, cleared,
                       dismissedKnown, overlapped>>

SWNeedRefresh(mode) ==
    LET ua1 == IF mode \in {"callback", "both"}
               THEN onNeedRefresh(updateAvailable, dismissedRef)
               ELSE updateAvailable
        sw1 == IF mode \in {"value", "both"} THEN TRUE ELSE swNeedRefresh
        e   == IF sw1 # swNeedRefresh THEN needRefreshEffect(sw1, ua1, dismissedRef)
               ELSE [ua |-> ua1, d |-> dismissedRef]
    IN  /\ updateAvailable' = e.ua
        /\ dismissedRef' = e.d
        /\ swNeedRefresh' = sw1
        /\ notified' = TRUE
        /\ lastOp' = "needRefresh"
        /\ UNCHANGED <<analyticsVars, waitVars>>
        /\ UNCHANGED <<offlineReady, swOfflineReady, now, dismissTimers,
                       reloadTimers, activations, activationOutcome, effects, log,
                       suppressedUntil, accepted, cleared, dismissedKnown,
                       overlapped>>

\* the mechanism's needRefresh value goes back to false: the effect's else branch
SWNeedRefreshCleared ==
    /\ swNeedRefresh
    /\ LET e == needRefreshEffect(FALSE, updateAvailable, dismissedRef)
       IN  /\ updateAvailable' = e.ua
           /\ dismissedRef' = e.d
    /\ swNeedRefresh' = FALSE
    /\ cleared' = TRUE
    /\ lastOp' = "needRefreshCleared"
    /\ UNCHANGED <<analyticsVars, waitVars>>
    /\ UNCHANGED <<offlineReady, swOfflineReady, now, dismissTimers, reloadTimers,
                   activations, activationOutcome, effects, log, suppressedUntil,
                   accepted, notified, dismissedKnown, overlapped>>

\* a hook that observes the failure of the activation and issues the command again
SWActivationSettles_retries(outcome) ==
    LET retry == outcome = "failed" /\ Len(activations) < MaxAccepts
    IN  /\ activationOutcome = "pending"
        /\ activationOutcome' = IF retry THEN "pending" ELSE outcome
        /\ activations' = IF retry THEN Append(activations, updateAppReloadFlag)
                           ELSE activations
        /\ lastOp' = "activationSettled"
        /\ UNCHANGED <<analyticsVars, waitVars>>
        /\ UNCHANGED <<updateAvailable, offlineReady, dismissedRef, swNeedRefresh,
                       swOfflineReady, now, dismissTimers, reloadTimers, effects, log,
                       suppressedUntil, accepted, notified, cleared, dismissedKnown,
                       overlapped>>

\* the promise returned by updateServiceWorker settles; the hook does not observe it
SWActivationSettles(outcome) ==
    /\ activationOutcome = "pending"
    /\ activationOutcome' = outcome
    /\ lastOp' = "activationSettled"
    /\ UNCHANGED <<analyticsVars, waitVars>>
    /\ UNCHANGED <<updateAvailable, offlineReady, dismissedRef, swNeedRefresh,
                   swOfflineReady, now, dismissTimers, reloadTimers, activations,
                   effects, log, suppressedUntil, accepted, notified, cleared,
                   dismissedKnown, overlapped>>

(***************************************************************************)
(* The two user actions the hook returns.                                  *)
(***************************************************************************)
\* updateApp also resetting offlineReady
updateApp_resetsOffline ==
    /\ Len(activations) < MaxAccepts
    /\ now \in CallTimes
    /\ activations' = Append(activations, updateAppReloadFlag)
    /\ activationOutcome' = "pending"
    /\ updateAvailable' = FALSE
    /\ offlineReady' = FALSE
    /\ dismissedRef' = FALSE
    /\ reloadTimers' = Append(reloadTimers, now + ReloadDelay)
    /\ effects' = effects \o updateAppEffects
    /\ accepted' = TRUE
    /\ lastOp' = "accept"
    /\ UNCHANGED <<analyticsVars, waitVars>>
    /\ UNCHANGED <<swNeedRefresh, swOfflineReady, now, dismissTimers, log,
                   suppressedUntil, notified, cleared, dismissedKnown, overlapped>>

updateApp ==
    /\ Len(activations) < MaxAccepts
    /\ now \in CallTimes
    /\ activations' = Append(activations, updateAppReloadFlag)
    /\ activationOutcome' = "pending"
    /\ updateAvailable' = FALSE
    /\ dismissedRef' = FALSE
    /\ reloadTimers' = Append(reloadTimers, now + ReloadDelay)
    /\ effects' = effects \o updateAppEffects
    /\ accepted' = TRUE
    /\ lastOp' = "accept"
    /\ UNCHANGED <<analyticsVars, waitVars>>
    /\ UNCHANGED <<offlineReady, swNeedRefresh, swOfflineReady, now, dismissTimers,
                   log, suppressedUntil, notified, cleared, dismissedKnown,
                   overlapped>>

\* dismissUpdate arming its timer without setting dismissedRef.current
dismissUpdate_flagNotSet ==
    /\ Len(dismissTimers) < MaxTimers
    /\ now \in CallTimes
    /\ updateAvailable' = FALSE
    /\ dismissedRef' = dismissedRef
    /\ dismissTimers' = Append(dismissTimers, now + dismissDelay)
    /\ suppressedUntil' = now + dismissDelay
    /\ dismissedKnown' = notified
    /\ overlapped' = (\E i \in DOMAIN dismissTimers : dismissTimers[i] > now)
    /\ lastOp' = "dismiss"
    /\ UNCHANGED <<analyticsVars, waitVars>>
    /\ UNCHANGED <<offlineReady, swNeedRefresh, swOfflineReady, now, reloadTimers,
                   activations, activationOutcome, effects, log, accepted, notified,
                   cleared>>

\* dismissUpdate cancelling the pending reload
dismissUpdate_cancelsReload ==
    /\ Len(dismissTimers) < MaxTimers
    /\ now \in CallTimes
    /\ updateAvailable' = FALSE
    /\ dismissedRef' = TRUE
    /\ dismissTimers' = Append(dismissTimers, now + dismissDelay)
    /\ reloadTimers' = << >>
    /\ suppressedUntil' = now + dismissDelay
    /\ dismissedKnown' = notified
    /\ overlapped' = (\E i \in DOMAIN dismissTimers : dismissTimers[i] > now)
    /\ lastOp' = "dismiss"
    /\ UNCHANGED <<analyticsVars, waitVars>>
    /\ UNCHANGED <<offlineReady, swNeedRefresh, swOfflineReady, now, activations,
                   activationOutcome, effects, log, accepted, notified, cleared>>

dismissUpdate ==
    /\ Len(dismissTimers) < MaxTimers
    /\ now \in CallTimes
    /\ updateAvailable' = FALSE
    /\ dismissedRef' = TRUE
    /\ dismissTimers' = Append(dismissTimers, now + dismissDelay)
    /\ suppressedUntil' = now + dismissDelay
    /\ dismissedKnown' = notified
    /\ overlapped' = (\E i \in DOMAIN dismissTimers : dismissTimers[i] > now)
    /\ lastOp' = "dismiss"
    /\ UNCHANGED <<analyticsVars, waitVars>>
    /\ UNCHANGED <<offlineReady, swNeedRefresh, swOfflineReady, now, reloadTimers,
                   activations, activationOutcome, effects, log, accepted, notified,
                   cleared>>

(***************************************************************************)
(* Timers and time.                                                        *)
(***************************************************************************)
PendingExpiries ==
    {dismissTimers[i] : i \in DOMAIN dismissTimers}
        \cup {reloadTimers[i] : i \in DOMAIN reloadTimers}

\* the timer callback also showing the prompt again
DismissTimerFires_reshows ==
    /\ dismissTimers # << >>
    /\ Head(dismissTimers) <= now
    /\ dismissedRef' = FALSE
    /\ updateAvailable' = TRUE
    /\ dismissTimers' = Tail(dismissTimers)
    /\ lastOp' = "dismissTimer"
    /\ UNCHANGED <<analyticsVars, waitVars>>
    /\ UNCHANGED <<offlineReady, swNeedRefresh, swOfflineReady, now, reloadTimers,
                   activations, activationOutcome, effects, log, suppressedUntil,
                   accepted, notified, cleared, dismissedKnown, overlapped>>

\* the callback of dismissUpdate's timer
DismissTimerFires ==
    /\ dismissTimers # << >>
    /\ Head(dismissTimers) <= now
    /\ dismissedRef' = FALSE
    /\ dismissTimers' = Tail(dismissTimers)
    /\ lastOp' = "dismissTimer"
    /\ UNCHANGED <<analyticsVars, waitVars>>
    /\ UNCHANGED <<updateAvailable, offlineReady, swNeedRefresh, swOfflineReady,
                   now, reloadTimers, activations, activationOutcome, effects, log,
                   suppressedUntil, accepted, notified, cleared, dismissedKnown,
                   overlapped>>

\* a reload that keeps the dismissed flag, as if it were persisted
Remount_keepsDismissed ==
    /\ updateAvailable' = FALSE
    /\ offlineReady' = FALSE
    /\ dismissedRef' = dismissedRef
    /\ swNeedRefresh' = FALSE
    /\ swOfflineReady' = FALSE
    /\ dismissTimers' = << >>
    /\ reloadTimers' = << >>
    /\ activations' = << >>
    /\ activationOutcome' = "none"
    /\ effects' = << >>
    /\ log' = {}
    /\ suppressedUntil' = 0
    /\ accepted' = FALSE
    /\ notified' = FALSE
    /\ cleared' = FALSE
    /\ dismissedKnown' = FALSE
    /\ overlapped' = FALSE
    /\ now' = 0

\* window.location.reload(): the page load ends and a new one mounts the hook;
\* nothing of the old page load is kept, and the clock starts again
Remount ==
    /\ updateAvailable' = FALSE
    /\ offlineReady' = FALSE
    /\ dismissedRef' = FALSE
    /\ swNeedRefresh' = FALSE
    /\ swOfflineReady' = FALSE
    /\ dismissTimers' = << >>
    /\ reloadTimers' = << >>
    /\ activations' = << >>
    /\ activationOutcome' = "none"
    /\ effects' = << >>
    /\ log' = {}
    /\ suppressedUntil' = 0
    /\ accepted' = FALSE
    /\ notified' = FALSE
    /\ cleared' = FALSE
    /\ dismissedKnown' = FALSE
    /\ overlapped' = FALSE
    /\ now' = 0

\* the callback of updateApp's timer
ReloadTimerFires ==
    /\ reloadTimers # << >>
    /\ Head(reloadTimers) <= now
    /\ Remount
    /\ lastOp' = "reload"
    /\ UNCHANGED <<analyticsVars, waitVars>>

\* the user reloads the page
ManualReload ==
    /\ Remount
    /\ lastOp' = IF now < suppressedUntil THEN "manualReloadInWindow" ELSE "manualReload"
    /\ UNCHANGED <<analyticsVars, waitVars>>

\* time passes, never beyond the expiry of a pending timer
TimePasses(d) ==
    /\ d > 0
    /\ \A t \in PendingExpiries : now + d <= t
    /\ now + d <= MaxTime \/ now + d \in PendingExpiries
    /\ now' = now + d
    /\ lastOp' = "time"
    /\ UNCHANGED <<analyticsVars, waitVars>>
    /\ UNCHANGED <<updateAvailable, offlineReady, dismissedRef, swNeedRefresh,
                   swOfflineReady, dismissTimers, reloadTimers, activations,
                   activationOutcome, effects, log, suppressedUntil, accepted,
                   notified, cleared, dismissedKnown, overlapped>>

\* to the next multiple of half a window, or to the expiry of a pending timer
TimeSteps == {HalfWindow - (now % HalfWindow)} \cup {t - now : t \in PendingExpiries}

Next ==
    \/ SWRegistered
    \/ SWRegisterError
    \/ \E mode \in DeliveryModes : SWOfflineReady(mode)
    \/ \E mode \in DeliveryModes : SWNeedRefresh(mode)
    \/ SWNeedRefreshCleared
    \/ \E outcome \in {"ok", "failed"} : SWActivationSettles(outcome)
    \/ updateApp
    \/ dismissUpdate
    \/ DismissTimerFires
    \/ ReloadTimerFires
    \/ ManualReload
    \/ \E d \in TimeSteps : TimePasses(d)

Spec == Init /\ [][Next]_vars

\* the event loop runs every due timer callback, and time passes
FairSpec ==
    /\ Spec
    /\ WF_vars(DismissTimerFires)
    /\ WF_vars(ReloadTimerFires)
    /\ WF_vars(\E d \in TimeSteps : TimePasses(d))

(***************************************************************************)
(* Derived quantities used by the properties.                              *)
(***************************************************************************)
CountOf(seq, x) == Cardinality({i \in DOMAIN seq : seq[i] = x})

activationsIssued == Len(activations)

reloadsScheduled == CountOf(effects, "setTimeout(reload)")

\* the window of the most recent dismissUpdate is still running
WindowRunning == now < suppressedUntil

\* no updateApp and no reset of the mechanism's needRefresh value in this page load
PlainSession == ~accepted /\ ~cleared

(***************************************************************************)
(* C1.  The prompt is shown iff updateAvailable is true and either no      *)
(* suppression was armed or the time is at or after suppressedUntil.       *)
(* Stated as the claim; the hook violates it.                              *)
(***************************************************************************)
C1_ShownIffAvailableAndWindowOver ==
    shouldShowPrompt <=> (updateAvailable /\ (suppressedUntil = 0 \/ now >= suppressedUntil))

(***************************************************************************)
(* C2.  After dismiss() at time t the prompt is hidden in the next state   *)
(* and stays hidden throughout [t, t + 48 h), whatever notifications and   *)
(* other dismiss calls occur.  Stated as the claim; the hook violates it.  *)
(***************************************************************************)
C2_HiddenThroughoutWindow ==
    /\ lastOp = "dismiss" => ~shouldShowPrompt
    /\ (PlainSession /\ WindowRunning) => ~shouldShowPrompt

(***************************************************************************)
(* C3.  Once accept() was invoked, the activation command has been issued  *)
(* exactly once and exactly one reload has been scheduled, however often   *)
(* accept() is invoked.  Stated as the claim; the hook violates it.        *)
(***************************************************************************)
C3_ActivationAndReloadOnce ==
    accepted => (activationsIssued = 1 /\ reloadsScheduled = 1)

C7_TerminalAfterAccept ==
    accepted => (~shouldShowPrompt /\ ~dismissedRef)

(***************************************************************************)
(* C8.  After accept() the reload eventually occurs: nothing cancels the   *)
(* pending reload, whatever the outcome of the activation command.         *)
(***************************************************************************)
C8_ReloadOccurs ==
    /\ [](accepted => reloadTimers # << >>)
    /\ accepted ~> ~accepted

\* an accept whose activation failed, followed by a dismiss, with the reload still pending
C8_Witness ==
    /\ accepted
    /\ lastOp = "dismiss"
    /\ activationOutcome = "failed"
    /\ reloadTimers # << >>

(***************************************************************************)
(* C9.  dismiss() at time t clears updateAvailable and arms suppression    *)
(* to expire at exactly t + 48 h; while an earlier suppression is running  *)
(* the expiry is measured from the most recent dismiss.  Stated as the     *)
(* claim; the hook violates it.                                            *)
(***************************************************************************)
C9_ExpiryFromLatestDismiss ==
    /\ lastOp = "dismiss" =>
         /\ ~updateAvailable
         /\ dismissedRef
         /\ dismissTimers[Len(dismissTimers)] = now + SuppressionWindow
    /\ (PlainSession /\ overlapped /\ WindowRunning) => dismissedRef

C12_NeedRefreshShowsPrompt ==
    [][ /\ ( /\ ~dismissedRef
             /\ \/ SWNeedRefresh("callback")
                \/ SWNeedRefresh("both")
                \/ (SWNeedRefresh("value") /\ ~swNeedRefresh) ) => shouldShowPrompt'
        /\ (lastOp' = "needRefresh" /\ shouldShowPrompt) =>
              /\ shouldShowPrompt'
              /\ dismissedRef' = dismissedRef
              /\ offlineReady' = offlineReady
              /\ dismissTimers' = dismissTimers
              /\ reloadTimers' = reloadTimers
              /\ activations' = activations
      ]_vars

\* registered, then need-refresh: the prompt is visible
C12_Witness ==
    /\ lastOp = "needRefresh"
    /\ log = {"Service Worker registrado"}
    /\ suppressedUntil = 0
    /\ shouldShowPrompt

(***************************************************************************)
(* C13.  While no need-refresh notification has been delivered in the      *)
(* page load the prompt is hidden, whatever else happens; an offline-ready *)
(* notification yields offlineReady = true.                                *)
(***************************************************************************)
C13_NoPromptWithoutNeedRefresh ==
    /\ ~notified => ~shouldShowPrompt
    /\ lastOp \in {"offlineReady", "offlineReadyAgain"} => offlineReady

\* offline-ready delivered, no need-refresh ever: offlineReady true, prompt hidden
C13_Witness ==
    /\ lastOp = "offlineReady"
    /\ ~notified
    /\ offlineReady
    /\ ~shouldShowPrompt

(***************************************************************************)
(* C14: delivering the offline-ready notification a second time, through   *)
(* the callback, the mechanism's offlineReady value or both, leaves the    *)
(* session state as the first delivery left it: offlineReady stays true    *)
(* and nothing else of the hook changes.                                   *)
(***************************************************************************)
C14_OfflineReadyIdempotent ==
    [][ (offlineReady /\ \E mode \in DeliveryModes : SWOfflineReady(mode)) =>
            /\ offlineReady'
            /\ UNCHANGED <<updateAvailable, dismissedRef, dismissTimers, reloadTimers,
                           activations, activationOutcome, effects, log, now,
                           swNeedRefresh>>
      ]_vars

\* delivered through the callback first and through the value afterwards
C14_Witness ==
    /\ lastOp = "offlineReadyAgain"
    /\ offlineReady
    /\ swOfflineReady

(***************************************************************************)
(* C15: offlineReady is monotonic within a page load: once it is true, no  *)
(* notification, updateApp, dismissUpdate or timer expiry makes it false;  *)
(* only a reload of the page, which mounts the hook anew, resets it.       *)
(***************************************************************************)
C15_OfflineReadyMonotonic ==
    [][ offlineReady => (offlineReady' \/ ReloadTimerFires \/ ManualReload) ]_vars

\* offlineReady is true after a need-refresh, a dismiss and the expiry of its timer
C15_Witness ==
    /\ offlineReady
    /\ lastOp = "dismissTimer"
    /\ notified
    /\ ~dismissedRef

(***************************************************************************)
(* C16: a registered notification and a registration-error notification    *)
(* only log: each leaves updateAvailable, offlineReady, the dismissed      *)
(* flag, its timers and everything else of the session unchanged, so after *)
(* a registration failure and no other notification both flags are false.  *)
(***************************************************************************)
C16_RegistrationOnlyLogs ==
    [][ (SWRegistered \/ SWRegisterError) =>
            /\ log' # log
            /\ UNCHANGED <<updateAvailable, offlineReady, dismissedRef, swNeedRefresh,
                           swOfflineReady, now, dismissTimers, reloadTimers,
                           activations, activationOutcome, effects, suppressedUntil>>
      ]_vars

\* the registration failed and nothing else was notified: both flags false
C16_Witness ==
    /\ lastOp = "registerError"
    /\ log = {"Error al registrar Service Worker"}
    /\ ~notified
    /\ ~swOfflineReady
    /\ ~updateAvailable
    /\ ~offlineReady

(***************************************************************************)
(* C17: dismissUpdate called while no update is known (no need-refresh     *)
(* was ever delivered, updateAvailable false) still arms the suppression,  *)
(* so throughout the 48 hours after that call, in a session without        *)
(* accept and without the mechanism withdrawing its value, a need-refresh  *)
(* notification does not show the prompt.                                  *)
(***************************************************************************)
C17_DismissWithoutUpdateSuppresses ==
    (PlainSession /\ ~dismissedKnown /\ WindowRunning) => ~shouldShowPrompt

HookState ==
    [ua |-> updateAvailable, o |-> offlineReady, d |-> dismissedRef,
     swN |-> swNeedRefresh, swO |-> swOfflineReady, log |-> log]

Notifications ==
    {[kind |-> "registered", mode |-> "callback"]}
        \cup [kind : {"offlineReady", "needRefresh"}, mode : DeliveryModes]

\* a hook that takes a need-refresh notification only once registration was reported
Deliver_needsRegistration(st, n) ==
    IF n.kind = "registered"
    THEN [st EXCEPT !.log = @ \cup {"Service Worker registrado"}]
    ELSE IF n.kind = "offlineReady"
    THEN [st EXCEPT !.o = TRUE,
                    !.swO = IF n.mode \in {"value", "both"} THEN TRUE ELSE @]
    ELSE IF st.log = {} THEN st
    ELSE [st EXCEPT !.ua = onNeedRefresh(st.ua, st.d),
                    !.swN = IF n.mode \in {"value", "both"} THEN TRUE ELSE @]

Deliver(st, n) ==
    IF n.kind = "registered"
    THEN [st EXCEPT !.log = @ \cup {"Service Worker registrado"}]
    ELSE IF n.kind = "offlineReady"
    THEN LET o1  == IF n.mode \in {"callback", "both"} THEN onOfflineReady(st.o)
                    ELSE st.o
             sw1 == IF n.mode \in {"value", "both"} THEN TRUE ELSE st.swO
             o2  == IF sw1 # st.swO THEN offlineReadyEffect(sw1, o1) ELSE o1
         IN  [st EXCEPT !.o = o2, !.swO = sw1]
    ELSE LET ua1 == IF n.mode \in {"callback", "both"} THEN onNeedRefresh(st.ua, st.d)
                    ELSE st.ua
             sw1 == IF n.mode \in {"value", "both"} THEN TRUE ELSE st.swN
             e   == IF sw1 # st.swN THEN needRefreshEffect(sw1, ua1, st.d)
                    ELSE [ua |-> ua1, d |-> st.d]
         IN  [st EXCEPT !.ua = e.ua, !.d = e.d, !.swN = sw1]

\* the state after delivering the notifications of a sequence, first to last
RECURSIVE DeliverAll(_, _)
DeliverAll(st, ns) ==
    IF ns = << >> THEN st ELSE DeliverAll(Deliver(st, Head(ns)), Tail(ns))

\* the six orders of three notifications
Orders(a, b, c) ==
    {<<a, b, c>>, <<a, c, b>>, <<b, a, c>>, <<b, c, a>>, <<c, a, b>>, <<c, b, a>>}

(***************************************************************************)
(* C19: from any state of a session in which the registration has not yet  *)
(* reported, delivering a registered, an offline-ready and a need-refresh  *)
(* notification ends in the same state for each of the six delivery        *)
(* orders, whatever the way each one is delivered; each notification step  *)
(* of the session is one application of Deliver.                           *)
(***************************************************************************)
C19_OrderIndependent ==
    /\ [](log = {} => \A mo, mn \in DeliveryModes :
            LET r == [kind |-> "registered", mode |-> "callback"]
                o == [kind |-> "offlineReady", mode |-> mo]
                n == [kind |-> "needRefresh", mode |-> mn]
                first == DeliverAll(HookState, <<r, o, n>>)
            IN  \A p \in Orders(r, o, n) : DeliverAll(HookState, p) = first)
    /\ [][ /\ SWRegistered =>
                 HookState' = Deliver(HookState, [kind |-> "registered", mode |-> "callback"])
           /\ \A mode \in DeliveryModes :
                 /\ SWOfflineReady(mode) =>
                      HookState' = Deliver(HookState, [kind |-> "offlineReady", mode |-> mode])
                 /\ SWNeedRefresh(mode) =>
                      HookState' = Deliver(HookState, [kind |-> "needRefresh", mode |-> mode])
         ]_vars

\* need-refresh and offline-ready were delivered before registered was
C19_Witness ==
    /\ lastOp = "registered"
    /\ notified
    /\ updateAvailable
    /\ offlineReady

(***************************************************************************)
(* C20: the activation command is issued only by updateApp, once per call: *)
(* no notification, dismissUpdate, timer expiry or settling of an earlier  *)
(* activation, failed or not, issues it or schedules a reload, and         *)
(* dismissUpdate leaves the issued commands and the scheduled reloads as   *)
(* they are.                                                               *)
(***************************************************************************)
C20_ActivationOnlyByAccept ==
    [][ /\ Len(activations') > Len(activations) =>
              updateApp /\ Len(activations') = Len(activations) + 1
        /\ Len(reloadTimers') > Len(reloadTimers) => updateApp
        /\ ~(updateApp \/ ReloadTimerFires \/ ManualReload) =>
              /\ activations' = activations
              /\ reloadTimers' = reloadTimers
              /\ effects' = effects
        /\ dismissUpdate =>
              /\ activations' = activations
              /\ reloadTimers' = reloadTimers
              /\ effects' = effects
      ]_vars

\* the one activation issued has failed, a dismiss followed, nothing was re-issued
C20_Witness ==
    /\ lastOp = "dismiss"
    /\ activationOutcome = "failed"
    /\ activationsIssued = 1
    /\ Len(reloadTimers) = 1

C22_ReloadDropsSuppression ==
    /\ [](lastOp \in {"reload", "manualReload", "manualReloadInWindow"} =>
            /\ ~updateAvailable
            /\ ~offlineReady
            /\ ~dismissedRef
            /\ dismissTimers = << >>
            /\ reloadTimers = << >>
            /\ ~shouldShowPrompt)
    /\ [][ (/\ lastOp \in {"manualReload", "manualReloadInWindow"}
            /\ \E mode \in DeliveryModes : SWNeedRefresh(mode)) => shouldShowPrompt'
         ]_vars

\* the page was reloaded by hand while the window of a dismissUpdate was running
C22_Witness ==
    /\ lastOp = "manualReloadInWindow"
    /\ ~dismissedRef
    /\ dismissTimers = << >>

(***************************************************************************)
(* C23: the two flags are independent: an offline-ready notification       *)
(* leaves updateAvailable, the dismissed flag and its timers unchanged,    *)
(* and a need-refresh notification, updateApp and dismissUpdate leave      *)
(* offlineReady unchanged.                                                 *)
(***************************************************************************)
C23_FlagsIndependent ==
    [][ /\ (\E mode \in DeliveryModes : SWOfflineReady(mode)) =>
              UNCHANGED <<updateAvailable, dismissedRef, dismissTimers, suppressedUntil,
                          swNeedRefresh>>
        /\ ( \/ \E mode \in DeliveryModes : SWNeedRefresh(mode)
             \/ SWNeedRefreshCleared
             \/ updateApp
             \/ dismissUpdate ) =>
              UNCHANGED <<offlineReady, swOfflineReady>>
      ]_vars

\* offlineReady set, then a need-refresh and an accept: offlineReady is still set
C23_Witness ==
    /\ lastOp = "accept"
    /\ offlineReady
    /\ swNeedRefresh
    /\ ~updateAvailable

\* the flags a need-refresh notification leaves when delivered in the given mode
AfterNeedRefresh(mode) ==
    LET st == Deliver(HookState, [kind |-> "needRefresh", mode |-> mode])
    IN  [ua |-> st.ua, d |-> st.d]

\* what the steps of the mechanism's needRefresh value and of updateAvailable obey
NeedRefreshValueRules ==
    /\ SWNeedRefreshCleared => (~updateAvailable' /\ ~dismissedRef')
    /\ (~updateAvailable /\ updateAvailable') =>
           \/ SWNeedRefresh("callback")
           \/ SWNeedRefresh("both")
           \/ (SWNeedRefresh("value") /\ ~swNeedRefresh)

(***************************************************************************)
(* C24 (as claimed).  When the mechanism's needRefresh value becomes       *)
(* false the effect sets updateAvailable to false and clears the dismissed *)
(* flag; updateAvailable becomes true only through the onNeedRefresh       *)
(* callback or the effect seeing the value true; and in every state a      *)
(* need-refresh handled by the callback alone, by the effect alone or by   *)
(* both leaves the same flags.                                             *)
(***************************************************************************)
C24_PathsAlwaysEquivalent ==
    /\ [](\A mode \in DeliveryModes : AfterNeedRefresh(mode) = AfterNeedRefresh("both"))
    /\ [][NeedRefreshValueRules]_vars

(***************************************************************************)
(* C24 (amended).  The same, with the equivalence of the callback path and *)
(* the effect path limited to notifications that find the mechanism's      *)
(* needRefresh value false: the effect runs only when the value changes,   *)
(* so a notification that finds it true already is handled by the callback *)
(* alone.                                                                  *)
(***************************************************************************)
C24_PathsEquivalentOnChange ==
    /\ [](~swNeedRefresh =>
            \A mode \in DeliveryModes : AfterNeedRefresh(mode) = AfterNeedRefresh("both"))
    /\ [][NeedRefreshValueRules]_vars

\* the value went back to false and a later need-refresh showed the prompt again
C24_Witness ==
    /\ lastOp = "needRefresh"
    /\ cleared
    /\ swNeedRefresh
    /\ updateAvailable

(***************************************************************************)
(* Analytics: lib/analytics.ts, where the Google Analytics and Meta Pixel   *)
(* tags are loaded by index.html.  A tracking function is an operator on    *)
(* the state of one synchronous call: the calls it has made to gtag and     *)
(* fbq so far, the dataLayer, the events recorded, and whether an           *)
(* exception is propagating (then the rest of the call is skipped).         *)
(* throws is the set of tags that throw when called during this call.       *)
(***************************************************************************)
MaxCalls == 2

CallStart == [sent |-> << >>, dl |-> dataLayer, rec |-> recorded, threw |-> FALSE]

\* window.gtag(...) or window.fbq(...): the third-party function is called and may throw
Invoke(c, tag, cmd, name, throws) ==
    [c EXCEPT !.sent = Append(@, [tag |-> tag, cmd |-> cmd, name |-> name,
                                   ok |-> tag \notin throws]),
              !.threw = tag \in throws]

\* catch (error) { console.error(...) }
Caught(c) == [c EXCEPT !.threw = FALSE]

isAnalyticsEnabled == gtag # "absent" /\ prod

isMetaPixelEnabled == fbqDefined /\ prod

trackPageView(c, throws) ==
    IF c.threw \/ ~isAnalyticsEnabled THEN c
    ELSE Caught(Invoke(c, "gtag", "event", "page_view", throws))

\* trackEvent without its try/catch
trackEvent_noCatch(c, name, throws) ==
    IF c.threw \/ ~isAnalyticsEnabled THEN c
    ELSE Invoke(c, "gtag", "event", name, throws)

trackEvent(c, name, throws) ==
    IF c.threw \/ ~isAnalyticsEnabled THEN c
    ELSE Caught(Invoke(c, "gtag", "event", name, throws))

trackMetaPixelEvent(c, name, throws) ==
    IF c.threw \/ ~isMetaPixelEnabled THEN c
    ELSE Caught(Invoke(c, "fbq", "track", name, throws))

trackMetaPixelCustomEvent(c, name, throws) ==
    IF c.threw \/ ~isMetaPixelEnabled THEN c
    ELSE Caught(Invoke(c, "fbq", "trackCustom", name, throws))

trackMetaPixelPageView(c, throws) ==
    IF c.threw \/ ~isMetaPixelEnabled THEN c
    ELSE Caught(Invoke(c, "fbq", "track", "PageView", throws))

\* ctaName.toLowerCase().includes('reservar') || ctaName.toLowerCase().includes('cita')
IsBookingCTA(ctaName) == ctaName = "Reservar Cita"

\* url.includes('doctoralia')
IsDoctoralia(url) == url = "https://www.doctoralia.com.mx/analaura-reyes-priego/fisioterapeuta/metepec"

trackCTAClick(c, ctaName, throws) ==
    LET c1 == trackEvent(c, "cta_click", throws)
    IN  IF IsBookingCTA(ctaName) THEN trackMetaPixelEvent(c1, "Lead", throws) ELSE c1

trackExternalLink(c, url, throws) ==
    LET c1 == trackEvent(c, "external_link_click", throws)
    IN  IF IsDoctoralia(url) THEN trackMetaPixelEvent(c1, "InitiateCheckout", throws) ELSE c1

trackPhoneClick(c, throws) ==
    trackMetaPixelEvent(trackEvent(c, "phone_click", throws), "Contact", throws)

trackWhatsAppClick(c, throws) ==
    trackMetaPixelEvent(trackEvent(c, "whatsapp_click", throws), "Contact", throws)

trackPhoneClickCombined(c, throws) ==
    LET c1 == trackPhoneClick(c, throws)
        c2 == trackMetaPixelEvent(c1, "Contact", throws)
    IN  trackMetaPixelCustomEvent(c2, "PhoneClick", throws)

trackWhatsAppClickCombined(c, throws) ==
    LET c1 == trackWhatsAppClick(c, throws)
        c2 == trackMetaPixelEvent(c1, "Contact", throws)
    IN  trackMetaPixelCustomEvent(c2, "WhatsAppClick", throws)

trackCTAClickCombined(c, ctaName, throws) ==
    LET c1 == trackCTAClick(c, ctaName, throws)
        c2 == IF IsBookingCTA(ctaName) THEN trackMetaPixelEvent(c1, "Lead", throws)
              ELSE trackMetaPixelEvent(c1, "ViewContent", throws)
    IN  trackMetaPixelCustomEvent(c2, "CTAClick", throws)

trackBookingClickCombined(c, throws) ==
    LET c1 == trackExternalLink(c,
                  "https://www.doctoralia.com.mx/analaura-reyes-priego/fisioterapeuta/metepec",
                  throws)
        c2 == trackMetaPixelEvent(c1, "InitiateCheckout", throws)
    IN  trackMetaPixelCustomEvent(c2, "BookingClick", throws)

CombinedHelpers ==
    {"trackPhoneClickCombined", "trackWhatsAppClickCombined",
     "trackCTAClickCombined(Reservar Cita)", "trackCTAClickCombined(Ver servicios)",
     "trackBookingClickCombined"}

\* the tracking functions a component calls, with the arguments that matter
TagCalls ==
    {"trackPageView", "trackEvent", "trackMetaPixelEvent", "trackMetaPixelCustomEvent",
     "trackMetaPixelPageView"} \cup CombinedHelpers

TagCall(name, c, throws) ==
    CASE name = "trackPageView" -> trackPageView(c, throws)
      [] name = "trackEvent" -> trackEvent(c, "section_view", throws)
      [] name = "trackMetaPixelEvent" -> trackMetaPixelEvent(c, "Lead", throws)
      [] name = "trackMetaPixelCustomEvent" -> trackMetaPixelCustomEvent(c, "Custom", throws)
      [] name = "trackMetaPixelPageView" -> trackMetaPixelPageView(c, throws)
      [] name = "trackPhoneClickCombined" -> trackPhoneClickCombined(c, throws)
      [] name = "trackWhatsAppClickCombined" -> trackWhatsAppClickCombined(c, throws)
      [] name = "trackCTAClickCombined(Reservar Cita)" ->
             trackCTAClickCombined(c, "Reservar Cita", throws)
      [] name = "trackCTAClickCombined(Ver servicios)" ->
             trackCTAClickCombined(c, "Ver servicios", throws)
      [] name = "trackBookingClickCombined" -> trackBookingClickCombined(c, throws)

(***************************************************************************)
(* Analytics, the self-loading module: initAnalytics creates dataLayer and  *)
(* a gtag that pushes to it, and appends the Google Analytics script, which *)
(* puts the official gtag in its place when it has loaded.                  *)
(***************************************************************************)
\* const isProduction = true: enabled whatever the build mode
selfLoading_isAnalyticsEnabled == TRUE

\* dataLayer.push([cmd, name, ...])
Push(c, cmd, name) ==
    [c EXCEPT !.dl = Append(@, <<cmd, name>>),
              !.rec = IF cmd = "event" THEN Append(@, name) ELSE @]

\* gtag(cmd, name, ...): the gtag of initAnalytics pushes to dataLayer and cannot throw;
\* the official one records the event unless it throws
GtagCall(c, cmd, name, throws) ==
    IF gtag = "stub"
    THEN LET c1 == Invoke(c, "gtag", cmd, name, {})
         IN  IF dataLayerDefined THEN Push(c1, cmd, name) ELSE c1
    ELSE LET c1 == Invoke(c, "gtag", cmd, name, throws)
         IN  IF c1.threw \/ cmd # "event" THEN c1
             ELSE [c1 EXCEPT !.rec = Append(@, name)]

selfLoading_trackPageView(c, throws) ==
    IF c.threw \/ ~selfLoading_isAnalyticsEnabled THEN c
    ELSE IF gtag # "absent" THEN Caught(GtagCall(c, "event", "page_view", throws))
    ELSE IF dataLayerDefined THEN Push(c, "event", "page_view")
    ELSE c

selfLoading_trackEvent(c, name, throws) ==
    IF c.threw \/ ~selfLoading_isAnalyticsEnabled THEN c
    ELSE IF gtag # "absent"
    THEN LET c1 == GtagCall(c, "event", name, throws)
         IN  IF ~c1.threw THEN c1
             ELSE IF dataLayerDefined THEN Push(Caught(c1), "event", name)
             ELSE Caught(c1)
    ELSE IF dataLayerDefined THEN Push(c, "event", name)
    ELSE c

SelfLoadingCalls == {"trackPageView", "trackEvent"}

SelfLoadingCall(name, c, throws) ==
    IF name = "trackPageView" THEN selfLoading_trackPageView(c, throws)
    ELSE selfLoading_trackEvent(c, "section_view", throws)

\* the event a tracking call of the self-loading module is asked to record
EventOf(name) == IF name = "trackPageView" THEN "page_view" ELSE "section_view"

(***************************************************************************)
(* The steps of the analytics module.                                      *)
(***************************************************************************)
\* main.tsx calls initAnalytics() once, before anything is rendered
initAnalytics ==
    /\ ~initialized
    /\ initialized' = TRUE
    /\ IF variant = "selfLoading" /\ selfLoading_isAnalyticsEnabled
       THEN /\ dataLayerDefined' = TRUE
            /\ dataLayer' = (IF dataLayerDefined THEN dataLayer ELSE << >>)
                                \o << <<"js", "Date">>, <<"config", "G-3L9C8QMNZV">> >>
            /\ gtag' = "stub"
            /\ scriptState' = "loading"
            /\ gaScriptInDom' = TRUE
       ELSE UNCHANGED <<dataLayerDefined, dataLayer, gtag, scriptState, gaScriptInDom>>
    /\ UNCHANGED <<variant, prod, fbqDefined, sent, lastCall, calls, recorded,
                   attempt, waitPending, checks, pageViews>>
    /\ UNCHANGED pwaVars

\* the script has loaded; whether it puts its own gtag in place is the script's business
ScriptLoads(replaces) ==
    /\ scriptState = "loading"
    /\ scriptState' = "loaded"
    /\ gtag' = IF replaces THEN "official" ELSE gtag
    /\ UNCHANGED <<variant, prod, fbqDefined, dataLayerDefined, dataLayer, initialized,
                   sent, lastCall, calls, recorded>>
    /\ UNCHANGED <<pwaVars, waitVars>>

\* script1.onerror
ScriptError ==
    /\ scriptState = "loading"
    /\ scriptState' = "failed"
    /\ UNCHANGED <<variant, prod, gtag, fbqDefined, dataLayerDefined, dataLayer,
                   initialized, sent, lastCall, calls, recorded>>
    /\ UNCHANGED <<pwaVars, waitVars>>

\* the setTimeout(..., 200) of script1.onload: the test event analytics_ready
OnloadTimerFires(throws) ==
    /\ scriptState = "loaded"
    /\ scriptState' = "onloadRun"
    /\ LET c == Caught(GtagCall(CallStart, "event", "analytics_ready", throws))
       IN  /\ dataLayer' = c.dl
           /\ recorded' = c.rec
    /\ UNCHANGED <<variant, prod, gtag, fbqDefined, dataLayerDefined, initialized,
                   sent, lastCall, calls>>
    /\ UNCHANGED <<pwaVars, waitVars>>

\* a component calls a tracking function
TrackingCall(name, throws) ==
    /\ initialized
    /\ Len(calls) < MaxCalls
    /\ name \in (IF variant = "tag" THEN TagCalls ELSE SelfLoadingCalls)
    /\ LET c == IF variant = "tag" THEN TagCall(name, CallStart, throws)
                ELSE SelfLoadingCall(name, CallStart, throws)
       IN  /\ sent' = c.sent
           /\ dataLayer' = c.dl
           /\ recorded' = c.rec
           /\ lastCall' = [name |-> name, throws |-> throws,
                           result |-> IF c.threw THEN "threw" ELSE "returned"]
    /\ calls' = Append(calls, name)
    /\ UNCHANGED <<variant, prod, gtag, fbqDefined, dataLayerDefined, initialized,
                   scriptState>>
    /\ UNCHANGED <<pwaVars, waitVars>>

\* the page as index.html and the build leave it, before main.tsx runs
AnalyticsInit ==
    /\ Mounted
    /\ now = 0
    /\ lastOp = "mount"
    /\ AnalyticsIdle
    /\ variant \in {"tag", "selfLoading"}
    /\ prod \in BOOLEAN
    /\ fbqDefined \in BOOLEAN
    /\ dataLayerDefined \in BOOLEAN
    /\ gtag \in (IF variant = "tag" THEN {"absent", "official"} ELSE {"absent"})
    /\ gaScriptInDom = (gtag # "absent")

AnalyticsNext ==
    \/ initAnalytics
    \/ \E replaces \in BOOLEAN : ScriptLoads(replaces)
    \/ ScriptError
    \/ \E throws \in SUBSET {"gtag"} : OnloadTimerFires(throws)
    \/ \E name \in TagCalls, throws \in SUBSET {"gtag", "fbq"} : TrackingCall(name, throws)

AnalyticsSpec == AnalyticsInit /\ [][AnalyticsNext]_vars

\* the calls the latest tracking call made to the given tag
SentTo(tag) == SelectSeq(sent, LAMBDA e : e.tag = tag)

(***************************************************************************)
(* C25: analytics is enabled only in production: after a tracking call     *)
(* made in development mode nothing was sent to gtag or fbq or pushed to    *)
(* dataLayer, and a call made while gtag (respectively fbq) is absent sent  *)
(* nothing to it.                                                          *)
(***************************************************************************)
C25_NothingSentUnlessEnabled ==
    lastCall.name # "none" =>
        /\ ~prod => (sent = << >> /\ recorded = << >>)
        /\ gtag = "absent" => SentTo("gtag") = << >>
        /\ ~fbqDefined => SentTo("fbq") = << >>

\* the calls to gtag and fbq in a sequence, without their outcome
Attempts(seq) == [i \in DOMAIN seq |-> <<seq[i].tag, seq[i].cmd, seq[i].name>>]

\* what the tracking call of the given name attempts when no tag throws
AttemptsWhenHealthy(name) ==
    Attempts((IF variant = "tag" THEN TagCall(name, CallStart, {})
              ELSE SelfLoadingCall(name, CallStart, {})).sent)

(***************************************************************************)
(* C27: no tracking function propagates a failure of gtag or fbq: every     *)
(* tracking call returns normally, whichever tags throw during it, and it   *)
(* still makes every call to gtag and fbq it makes when none of them        *)
(* throws, so a combined helper attempts its remaining events after one     *)
(* has failed.                                                              *)
(***************************************************************************)
C27_FailuresContained ==
    lastCall.name # "none" =>
        /\ lastCall.result = "returned"
        /\ Attempts(sent) = AttemptsWhenHealthy(lastCall.name)

\* both tags threw during trackPhoneClickCombined; its four calls were all attempted
C27_Witness ==
    /\ lastCall.name = "trackPhoneClickCombined"
    /\ lastCall.throws = {"gtag", "fbq"}
    /\ lastCall.result = "returned"
    /\ Len(sent) = 4

\* how many calls of the given command the latest tracking call made to the given tag
CountSent(tag, cmd) ==
    Len(SelectSeq(sent, LAMBDA e : e.tag = tag /\ e.cmd = cmd))

(***************************************************************************)
(* C28: with analytics enabled and no tag throwing, one call of a combined  *)
(* tracking helper sends each of its events exactly once: one GA4 event,    *)
(* one standard Meta Pixel event and one custom Meta Pixel event.           *)
(***************************************************************************)
C28_EachEventOnce ==
    ( /\ variant = "tag"
      /\ lastCall.name \in CombinedHelpers
      /\ lastCall.throws = {}
      /\ isAnalyticsEnabled
      /\ isMetaPixelEnabled ) =>
        /\ CountSent("gtag", "event") = 1
        /\ CountSent("fbq", "track") = 1
        /\ CountSent("fbq", "trackCustom") = 1

\* the events of tracking calls recorded so far, without the test event of script1.onload
RecordedByCalls == SelectSeq(recorded, LAMBDA e : e # "analytics_ready")

(***************************************************************************)
(* C29: in the self-loading module, after initAnalytics every trackEvent    *)
(* and trackPageView call, made before or after the script has loaded, is   *)
(* recorded exactly once and in call order, by gtag or, when gtag throws,   *)
(* by a push to dataLayer: the events recorded are those of the calls made, *)
(* in the same order.                                                       *)
(***************************************************************************)
C29_RecordedOnceInOrder ==
    variant = "selfLoading" =>
        RecordedByCalls = [i \in DOMAIN calls |-> EventOf(calls[i])]

(***************************************************************************)
(* The initial page view of main.tsx: waitForAnalytics looks for the       *)
(* Google Analytics script element and tracks the page view when it finds   *)
(* it; otherwise it calls itself again through setTimeout(..., 100) until   *)
(* attempt has reached maxAttempts.                                         *)
(***************************************************************************)
\* the default of the maxAttempts parameter; main.tsx calls waitForAnalytics()
DefaultMaxAttempts == 20

\* the delay of the retry
WaitDelay == 100

\* waitForAnalytics that goes on retrying after it has tracked the page view
waitForAnalytics_retriesAfterTracking(throws) ==
    /\ waitPending
    /\ checks' = checks + 1
    /\ now' = IF attempt > 0 THEN now + WaitDelay ELSE now
    /\ IF gaScriptInDom
       THEN LET c == TagCall("trackPageView", CallStart, throws)
            IN  /\ pageViews' = pageViews + 1
                /\ sent' = c.sent
                /\ lastCall' = [name |-> "trackPageView", throws |-> throws,
                                result |-> IF c.threw THEN "threw" ELSE "returned"]
                /\ calls' = Append(calls, "trackPageView")
                /\ waitPending' = (attempt < DefaultMaxAttempts)
                /\ attempt' = IF attempt < DefaultMaxAttempts THEN attempt + 1 ELSE attempt
       ELSE /\ waitPending' = (attempt < DefaultMaxAttempts)
            /\ attempt' = IF attempt < DefaultMaxAttempts THEN attempt + 1 ELSE attempt
            /\ UNCHANGED <<pageViews, sent, lastCall, calls>>
    /\ UNCHANGED <<variant, prod, gtag, fbqDefined, dataLayerDefined, dataLayer,
                   initialized, scriptState, recorded, gaScriptInDom>>
    /\ UNCHANGED <<updateAvailable, offlineReady, dismissedRef, swNeedRefresh,
                   swOfflineReady, dismissTimers, reloadTimers, activations,
                   activationOutcome, effects, log, suppressedUntil, accepted, notified,
                   cleared, dismissedKnown, overlapped, lastOp>>

\* one call of waitForAnalytics: the first, or the one a setTimeout scheduled 100 ms ago
waitForAnalytics(throws) ==
    /\ waitPending
    /\ checks' = checks + 1
    /\ now' = IF attempt > 0 THEN now + WaitDelay ELSE now
    /\ IF gaScriptInDom
       THEN LET c == TagCall("trackPageView", CallStart, throws)
            IN  /\ pageViews' = pageViews + 1
                /\ sent' = c.sent
                /\ lastCall' = [name |-> "trackPageView", throws |-> throws,
                                result |-> IF c.threw THEN "threw" ELSE "returned"]
                /\ calls' = Append(calls, "trackPageView")
                /\ waitPending' = FALSE
                /\ attempt' = attempt
       ELSE /\ waitPending' = (attempt < DefaultMaxAttempts)
            /\ attempt' = IF attempt < DefaultMaxAttempts THEN attempt + 1 ELSE attempt
            /\ UNCHANGED <<pageViews, sent, lastCall, calls>>
    /\ UNCHANGED <<variant, prod, gtag, fbqDefined, dataLayerDefined, dataLayer,
                   initialized, scriptState, recorded, gaScriptInDom>>
    /\ UNCHANGED <<updateAvailable, offlineReady, dismissedRef, swNeedRefresh,
                   swOfflineReady, dismissTimers, reloadTimers, activations,
                   activationOutcome, effects, log, suppressedUntil, accepted, notified,
                   cleared, dismissedKnown, overlapped, lastOp>>

\* the Google Analytics script element is added to the document
ScriptTagAppears ==
    /\ ~gaScriptInDom
    /\ gaScriptInDom' = TRUE
    /\ UNCHANGED <<attempt, waitPending, checks, pageViews>>
    /\ UNCHANGED <<pwaVars, analyticsVars>>

\* main.tsx has run initAnalytics() and is about to call waitForAnalytics()
WaitInit ==
    /\ Mounted
    /\ now = 0
    /\ lastOp = "mount"
    /\ variant = "tag"
    /\ prod \in BOOLEAN
    /\ gtag \in {"absent", "official"}
    /\ fbqDefined \in BOOLEAN
    /\ dataLayerDefined = (gtag # "absent")
    /\ dataLayer = << >>
    /\ initialized = TRUE
    /\ scriptState = "none"
    /\ sent = << >>
    /\ lastCall = NoCall
    /\ calls = << >>
    /\ recorded = << >>
    /\ gaScriptInDom \in BOOLEAN
    /\ attempt = 0
    /\ waitPending = TRUE
    /\ checks = 0
    /\ pageViews = 0

WaitNext ==
    \/ \E throws \in SUBSET {"gtag"} : waitForAnalytics(throws)
    \/ ScriptTagAppears

\* the event loop runs the first call and every call a setTimeout has scheduled
FairWaitSpec ==
    /\ WaitInit
    /\ [][WaitNext]_vars
    /\ WF_vars(\E throws \in SUBSET {"gtag"} : waitForAnalytics(throws))

(***************************************************************************)
(* C26: the wait loop terminates: it looks for the script at most           *)
(* maxAttempts + 1 times (21 by default), a retry coming 100 ms after the   *)
(* check before it; it calls trackPageView at most once, in the first      *)
(* check that finds the script; after it has tracked or used up its         *)
(* attempts no call is pending, and none is scheduled again.                *)
(***************************************************************************)
C26_WaitLoopTerminates ==
    /\ [](checks <= DefaultMaxAttempts + 1)
    /\ [](waitPending => checks = attempt)
    /\ [](checks >= 1 => now = (checks - 1) * WaitDelay)
    /\ [](pageViews <= 1)
    /\ [](pageViews = 1 => (~waitPending /\ gaScriptInDom))
    /\ [][ /\ (checks' # checks /\ gaScriptInDom) => (pageViews = 0 /\ pageViews' = 1)
           /\ ~waitPending => ~waitPending'
         ]_vars
    /\ <>[](~waitPending)

\* the script never appeared: 21 checks, no page view, nothing pending
C26_Witness ==
    /\ checks = DefaultMaxAttempts + 1
    /\ ~waitPending
    /\ ~gaScriptInDom
    /\ pageViews = 0

====
